---- MODULE Spec2Model ----
(***************************************************************************)
(* Model of the transaction engine of src/src/main.rs: the per-client      *)
(* ledger (Client::process_transaction) and the fold of main over the      *)
(* parsed records.  Decimals are bigdecimal values, modelled as the pair   *)
(* (int_val, scale) that stands for int_val * 10^(-scale).                 *)
(***************************************************************************)
EXTENDS Integers, Sequences, FiniteSets

(***************************************************************************)
(* Bounds of the model.                                                    *)
(***************************************************************************)
\* Records the fold consumes in one run.
MaxRecords == 4

\* const PRECISION: u64 = 5;
PRECISION == 5

ClientIds == {1, 2}
TxIds == {1, 2}

(***************************************************************************)
(* bigdecimal::BigDecimal                                                  *)
(***************************************************************************)
BigDecimal(i, s) == [int_val |-> i, scale |-> s]

RECURSIVE ten_to_the(_)
ten_to_the(n) == IF n <= 0 THEN 1 ELSE 10 * ten_to_the(n - 1)

Abs(i) == IF i < 0 THEN -i ELSE i

\* BigInt::div_rem truncates towards zero; the remainder has the dividend's sign.
TruncDiv(i, p) == IF i < 0 THEN -((-i) \div p) ELSE i \div p
TruncRem(i, p) == i - p * TruncDiv(i, p)

\* BigDecimal::digits: the number of decimal digits of int_val (1 for zero).
RECURSIVE CountDigits(_)
CountDigits(i) == IF i < 10 THEN 1 ELSE 1 + CountDigits(i \div 10)
digits(x) == CountDigits(Abs(x.int_val))

\* BigDecimal::with_scale, as the arithmetic uses it (towards a larger scale).
with_scale(x, s) ==
    IF s >= x.scale
    THEN BigDecimal(x.int_val * ten_to_the(s - x.scale), s)
    ELSE BigDecimal(TruncDiv(x.int_val, ten_to_the(x.scale - s)), s)

MaxScale(x, y) == IF x.scale >= y.scale THEN x.scale ELSE y.scale

\* AddAssign / SubAssign: exact, the result carries the larger scale.
Add(x, y) ==
    BigDecimal(with_scale(x, MaxScale(x, y)).int_val + with_scale(y, MaxScale(x, y)).int_val,
               MaxScale(x, y))
Sub(x, y) ==
    BigDecimal(with_scale(x, MaxScale(x, y)).int_val - with_scale(y, MaxScale(x, y)).int_val,
               MaxScale(x, y))

\* PartialOrd / PartialEq compare the values, whatever the scales.
Le(x, y) == with_scale(x, MaxScale(x, y)).int_val <= with_scale(y, MaxScale(x, y)).int_val
Eq(x, y) == with_scale(x, MaxScale(x, y)).int_val = with_scale(y, MaxScale(x, y)).int_val

\* get_rounding_term: 1 when the remainder's leading digit is 5 or more.
get_rounding_term(r, p) == IF 2 * r >= p THEN 1 ELSE 0

\* BigDecimal::with_prec: keeps prec SIGNIFICANT digits of int_val.  More digits
\* are cut (rounded on a positive remainder without a leading zero), fewer are
\* padded with zeros, raising the scale.
with_prec(x, prec) ==
    IF digits(x) > prec
    THEN LET diff == digits(x) - prec
             p == ten_to_the(diff)
             q == TruncDiv(x.int_val, p)
             r == TruncRem(x.int_val, p)
         IN  BigDecimal(IF p < 10 * r THEN q + get_rounding_term(r, p) ELSE q,
                        x.scale - diff)
    ELSE IF digits(x) < prec
    THEN BigDecimal(x.int_val * ten_to_the(prec - digits(x)), x.scale + (prec - digits(x)))
    ELSE x

Zero == BigDecimal(0, 0)

(***************************************************************************)
(* Option<T>: None is the empty sequence, Some(v) the sequence <<v>>.      *)
(***************************************************************************)
None == << >>
Some(v) == << v >>
is_some(o) == Len(o) = 1
unwrap(o) == o[1]

(***************************************************************************)
(* Transaction and Client                                                  *)
(***************************************************************************)
TransactionType == {"Deposit", "Withdrawal", "Dispute", "Resolve", "Chargeback"}

Transaction(ty, c, i, a, d) ==
    [type_ |-> ty, client_id |-> c, id |-> i, amount |-> a, disputed |-> d]

\* HashMap::insert and HashMap lookups, on a function whose DOMAIN is the key set.
insert(m, k, v) == [x \in (DOMAIN m) \cup {k} |-> IF x = k THEN v ELSE m[x]]
EmptyMap == [x \in {} |-> 0]

\* Client::new
new(id) ==
    [id |-> id,
     available |-> with_prec(Zero, PRECISION),
     held |-> with_prec(Zero, PRECISION),
     total |-> with_prec(Zero, PRECISION),
     locked |-> FALSE,
     transactions |-> EmptyMap]

\* Client::add_transaction
add_transaction(self, transaction) ==
    [self EXCEPT !.transactions =
        insert(self.transactions, transaction.id,
               Transaction(transaction.type_, self.id, transaction.id,
                           Some(with_prec(unwrap(transaction.amount), PRECISION)),
                           transaction.disputed))]

Deposit(self, transaction) ==
    IF is_some(transaction.amount)
    THEN LET amount == with_prec(unwrap(transaction.amount), PRECISION)
         IN  add_transaction([self EXCEPT !.available = Add(@, amount),
                                          !.total = Add(@, amount)],
                             transaction)
    ELSE self

\* Withdrawal with add_transaction moved out of `if amount <= self.available`.
Withdrawal_records_rejected(self, transaction) ==
    IF is_some(transaction.amount)
    THEN LET amount == with_prec(unwrap(transaction.amount), PRECISION)
         IN  IF Le(amount, self.available)
             THEN add_transaction([self EXCEPT !.available = Sub(@, amount),
                                               !.total = Sub(@, amount)],
                                  transaction)
             ELSE add_transaction(self, transaction)
    ELSE self

Withdrawal(self, transaction) ==
    IF is_some(transaction.amount)
    THEN LET amount == with_prec(unwrap(transaction.amount), PRECISION)
         IN  IF Le(amount, self.available)
             THEN add_transaction([self EXCEPT !.available = Sub(@, amount),
                                               !.total = Sub(@, amount)],
                                  transaction)
             ELSE self
    ELSE self

\* Dispute with `self.available -= amount` left out.
Dispute_keeps_available(self, target) ==
    LET amount == unwrap(target.amount)
    IN  [self EXCEPT !.held = Add(@, amount),
                     !.transactions[target.id].disputed = TRUE]

Dispute(self, target) ==
    LET amount == unwrap(target.amount)
    IN  [self EXCEPT !.available = Sub(@, amount),
                     !.held = Add(@, amount),
                     !.transactions[target.id].disputed = TRUE]

\* Resolve with `self.available += amount` left out.
Resolve_keeps_available(self, target) ==
    LET amount == unwrap(target.amount)
    IN  [self EXCEPT !.held = Sub(@, amount),
                     !.transactions[target.id].disputed = FALSE]

\* Resolve with `target.disputed = false` left out.
Resolve_keeps_flag(self, target) ==
    LET amount == unwrap(target.amount)
    IN  [self EXCEPT !.held = Sub(@, amount),
                     !.available = Add(@, amount)]

Resolve(self, target) ==
    LET amount == unwrap(target.amount)
    IN  [self EXCEPT !.held = Sub(@, amount),
                     !.available = Add(@, amount),
                     !.transactions[target.id].disputed = FALSE]

\* Chargeback with `self.locked = true` left out.
Chargeback_no_lock(self, target) ==
    LET amount == unwrap(target.amount)
    IN  [self EXCEPT !.held = Sub(@, amount),
                     !.total = Sub(@, amount)]

\* Chargeback with `self.total -= amount` left out.
Chargeback_keeps_total(self, target) ==
    LET amount == unwrap(target.amount)
    IN  [self EXCEPT !.held = Sub(@, amount),
                     !.locked = TRUE]

Chargeback(self, target) ==
    LET amount == unwrap(target.amount)
    IN  [self EXCEPT !.held = Sub(@, amount),
                     !.total = Sub(@, amount),
                     !.locked = TRUE]

\* The match with the Dispute arm's guard `if !target.disputed` left out.
dispatch_redisputes(self, transaction) ==
    IF transaction.type_ = "Deposit" THEN Deposit(self, transaction)
    ELSE IF transaction.type_ = "Withdrawal" THEN Withdrawal(self, transaction)
    ELSE IF transaction.id \in DOMAIN self.transactions
    THEN LET target == self.transactions[transaction.id]
         IN  IF transaction.type_ = "Dispute"
             THEN Dispute(self, target)
             ELSE IF transaction.type_ = "Resolve" /\ target.disputed
             THEN Resolve(self, target)
             ELSE IF transaction.type_ = "Chargeback" /\ target.disputed
             THEN Chargeback(self, target)
             ELSE self
    ELSE self

\* The match with the Chargeback arm's guard `if target.disputed` left out.
dispatch_chargeback_any(self, transaction) ==
    IF transaction.type_ = "Deposit" THEN Deposit(self, transaction)
    ELSE IF transaction.type_ = "Withdrawal" THEN Withdrawal(self, transaction)
    ELSE IF transaction.id \in DOMAIN self.transactions
    THEN LET target == self.transactions[transaction.id]
         IN  IF transaction.type_ = "Dispute" /\ ~target.disputed
             THEN Dispute(self, target)
             ELSE IF transaction.type_ = "Resolve" /\ target.disputed
             THEN Resolve(self, target)
             ELSE IF transaction.type_ = "Chargeback"
             THEN Chargeback(self, target)
             ELSE self
    ELSE self

\* The match on transaction.type_ in Client::process_transaction.
dispatch(self, transaction) ==
    IF transaction.type_ = "Deposit" THEN Deposit(self, transaction)
    ELSE IF transaction.type_ = "Withdrawal" THEN Withdrawal(self, transaction)
    ELSE IF transaction.id \in DOMAIN self.transactions
    THEN LET target == self.transactions[transaction.id]
         IN  IF transaction.type_ = "Dispute" /\ ~target.disputed
             THEN Dispute(self, target)
             ELSE IF transaction.type_ = "Resolve" /\ target.disputed
             THEN Resolve(self, target)
             ELSE IF transaction.type_ = "Chargeback" /\ target.disputed
             THEN Chargeback(self, target)
             ELSE self
    ELSE self

\* process_transaction with the `if self.locked { return; }` guard left out.
process_transaction_unguarded(self, transaction) == dispatch(self, transaction)

\* Client::process_transaction: a locked client ignores every record.
process_transaction(self, transaction) ==
    IF self.locked THEN self ELSE dispatch(self, transaction)

(***************************************************************************)
(* The records an input can hold.                                          *)
(***************************************************************************)
\* 1, 2.5 and 12.3456: the last has more than PRECISION significant digits.
Amounts == {BigDecimal(1, 0), BigDecimal(25, 1), BigDecimal(123456, 4)}
\* With a negative amount, which the parser accepts as well: -1, 2.5 and 12.3456.
SignedAmounts == {BigDecimal(-1, 0), BigDecimal(25, 1), BigDecimal(123456, 4)}

\* Deposit and withdrawal records: `disputed` is #[serde(skip)], always the
\* default (false); `amount` is #[serde(default)], None when the field is empty.
FundRecords(amounts, ids) ==
    { Transaction(ty, c, i, a, FALSE) :
        ty \in {"Deposit", "Withdrawal"}, c \in ClientIds, i \in ids, a \in amounts }

\* Dispute, resolve and chargeback records carry no amount.
ControlRecords(ids) ==
    { Transaction(ty, c, i, None, FALSE) :
        ty \in {"Dispute", "Resolve", "Chargeback"}, c \in ClientIds, i \in ids }

Present(amounts) == {Some(v) : v \in amounts}

(***************************************************************************)
(* State: the client map of main, the record the loop is processing, the   *)
(* client as process_transaction received it for that record, and the      *)
(* number of records consumed so far.                                      *)
(***************************************************************************)
VARIABLES clients, transaction, before, consumed

(***************************************************************************)
(* State of main around the fold: its position, the rows the reader has    *)
(* deserialized, the rows a sharded fold has applied, the error class of   *)
(* the run, the client rows written, the message printed and the exit code.*)
(***************************************************************************)
VARIABLES pc, rows, taken, failure, written, message, exit_code

io == << pc, rows, taken, failure, written, message, exit_code >>

vars == << clients, transaction, before, consumed, io >>

\* Before the first iteration there is no record and no receiver.
NoTransaction == Transaction("None", 0, 0, None, FALSE)

\* The state of main when the fold starts on a parsed input.
InitFold ==
    /\ clients = EmptyMap
    /\ transaction = NoTransaction
    /\ before = new(0)
    /\ consumed = 0

InitIo ==
    /\ rows = << >>
    /\ taken = {}
    /\ failure = "None"
    /\ written = << >>
    /\ message = None
    /\ exit_code = None

Init ==
    /\ InitFold
    /\ InitIo
    /\ pc = "fold"

\* clients.entry(id).or_insert_with(|| Client::new(id))
entry_or_insert(m, id) == IF id \in DOMAIN m THEN m[id] ELSE new(id)

\* The client a record would reach if the histories were one table shared by
\* all clients: the owner of the tx a dispute, resolve or chargeback names.
owner_of(m, t) ==
    IF /\ t.type_ \in {"Dispute", "Resolve", "Chargeback"}
       /\ \E d \in DOMAIN m : t.id \in DOMAIN m[d].transactions
    THEN CHOOSE d \in DOMAIN m : t.id \in DOMAIN m[d].transactions
    ELSE t.client_id

\* The loop body with the record applied to the owner of the tx it names.
apply_shared_table(m, t) ==
    insert(insert(m, t.client_id, entry_or_insert(m, t.client_id)),
           owner_of(m, t),
           process_transaction(entry_or_insert(m, owner_of(m, t)), t))

\* The loop body with the client inserted only once a record has changed it.
apply_lazy_insert(m, t) ==
    IF t.client_id \notin DOMAIN m /\ process_transaction(new(t.client_id), t) = new(t.client_id)
    THEN m
    ELSE insert(m, t.client_id, process_transaction(entry_or_insert(m, t.client_id), t))

\* The body of the loop of main, on the client map:
\* clients.entry(id).or_insert_with(..).process_transaction(&transaction)
apply(m, t) ==
    insert(m, t.client_id, process_transaction(entry_or_insert(m, t.client_id), t))

\* One iteration of the loop, on the variables of the fold.
FoldCore(t) ==
    /\ consumed < MaxRecords
    /\ transaction' = t
    /\ before' = entry_or_insert(clients, t.client_id)
    /\ clients' = apply(clients, t)
    /\ consumed' = consumed + 1

\* The iteration with the record applied to the owner of the tx it names.
Fold_shared_table(t) ==
    /\ consumed < MaxRecords
    /\ transaction' = t
    /\ before' = entry_or_insert(clients, t.client_id)
    /\ clients' = apply_shared_table(clients, t)
    /\ consumed' = consumed + 1
    /\ UNCHANGED io

\* One iteration of `for transaction in transactions` in main.
Fold(t) ==
    /\ FoldCore(t)
    /\ UNCHANGED io

\* Well-formed inputs: every deposit and withdrawal has an amount that is not
\* negative and a tx of its own (its position in the input); the other records
\* name any tx, used or not.
Next ==
    \E t \in FundRecords(Present(Amounts), {consumed + 1})
              \cup ControlRecords(1 .. MaxRecords) : Fold(t)

Spec == Init /\ [][Next]_vars

\* Inputs the parser accepts all the same: repeated tx ids and missing amounts.
NextRepeated ==
    \E t \in FundRecords({None} \cup Present(Amounts), TxIds)
              \cup ControlRecords(TxIds) : Fold(t)

SpecRepeated == Init /\ [][NextRepeated]_vars

\* And negative amounts.
NextAny ==
    \E t \in FundRecords({None} \cup Present(SignedAmounts), TxIds)
              \cup ControlRecords(TxIds) : Fold(t)

SpecAny == Init /\ [][NextAny]_vars

(***************************************************************************)
(* main, from its arguments to its exit, on small inputs.                  *)
(***************************************************************************)
\* Rows of the input file: deposits of 2.5 as tx 1, and disputes and chargebacks
\* of tx 1, for either client.
MainRows ==
    {r \in FundRecords(Present({BigDecimal(25, 1)}), {1}) \cup ControlRecords({1}) :
        r.type_ \in {"Deposit", "Dispute", "Chargeback"}}

\* The ways a run ends: success, the usage error, the three arms on the
\* io::Error (NotFound, PermissionDenied, anything else) and a row that does
\* not serialize.
FailureClasses == {"Usage", "NotFound", "PermissionDenied", "Other", "Serialize"}

\* The messages with the PermissionDenied arm printing the NotFound text.
error_message_copied(class) ==
    CASE class = "Usage" -> "Usage: <input_file>"
      [] class = "NotFound" -> "Error: input file does not exist"
      [] class = "PermissionDenied" -> "Error: input file does not exist"
      [] class = "Other" -> "Error: input file has an invalid format"
      [] class = "Serialize" -> "Error: unable to serialize client to csv"

\* The message main prints for each (without the file name or the client id).
error_message(class) ==
    CASE class = "Usage" -> "Usage: <input_file>"
      [] class = "NotFound" -> "Error: input file does not exist"
      [] class = "PermissionDenied" -> "Error: input file is not readable"
      [] class = "Other" -> "Error: input file has an invalid format"
      [] class = "Serialize" -> "Error: unable to serialize client to csv"

\* std::process::exit(1) on every error path; main returns (0) on success.
exit_status(class) == IF class = "None" THEN 0 ELSE 1

InitMain ==
    /\ InitFold
    /\ InitIo
    /\ pc = "args"

\* if args.len() != 2 { println!("Usage: ..."); exit(1) }
CheckArgs ==
    /\ pc = "args"
    /\ \E len \in {1, 2, 3} :
         IF len = 2
         THEN /\ pc' = "open"
              /\ UNCHANGED << failure, message, exit_code >>
         ELSE /\ pc' = "exit"
              /\ failure' = "Usage"
              /\ message' = Some(error_message("Usage"))
              /\ exit_code' = Some(exit_status("Usage"))
    /\ UNCHANGED << clients, transaction, before, consumed, rows, taken, written >>

\* File::open(&args[1]): the file, or an io::Error of some kind.
Open ==
    /\ pc = "open"
    /\ \E kind \in {"Ok", "NotFound", "PermissionDenied", "Other"} :
         IF kind = "Ok"
         THEN pc' = "parse" /\ UNCHANGED failure
         ELSE pc' = "match" /\ failure' = kind
    /\ UNCHANGED << clients, transaction, before, consumed, rows, taken, written,
                    message, exit_code >>

\* A reader that hands each row to its client as soon as it deserializes.
ReadRow_streaming ==
    /\ pc = "parse"
    /\ Len(rows) < MaxRecords
    /\ \E r \in MainRows : rows' = Append(rows, r) /\ FoldCore(r)
    /\ UNCHANGED << pc, taken, failure, written, message, exit_code >>

\* transactions_from_reader: the next row deserializes and joins the Vec.
ReadRow ==
    /\ pc = "parse"
    /\ Len(rows) < MaxRecords
    /\ \E r \in MainRows : rows' = Append(rows, r)
    /\ UNCHANGED << clients, transaction, before, consumed, pc, taken, failure,
                    written, message, exit_code >>

\* The next row does not deserialize: collect stops, `?` turns the csv::Error
\* into an io::Error of kind Other, and the rows read so far are not used.
ReadMalformed ==
    /\ pc = "parse"
    /\ failure' = "Other"
    /\ pc' = "match"
    /\ UNCHANGED << clients, transaction, before, consumed, rows, taken, written,
                    message, exit_code >>

\* The reader is exhausted: Ok(Vec), and the fold starts.
EndOfInput ==
    /\ pc = "parse"
    /\ pc' = "fold"
    /\ UNCHANGED << clients, transaction, before, consumed, rows, taken, failure,
                    written, message, exit_code >>

\* for transaction in transactions { ... }, in input order.
FoldRecord ==
    /\ pc = "fold"
    /\ consumed < Len(rows)
    /\ Fold(rows[consumed + 1])

\* The loop ends and the map reaches the Ok(clients) arm.
EndFold ==
    /\ pc = "fold"
    /\ consumed = Len(rows)
    /\ pc' = "write"
    /\ UNCHANGED << clients, transaction, before, consumed, rows, taken, failure,
                    written, message, exit_code >>

\* The row of a client: `transactions` is #[serde(skip)].
row_of(client) ==
    [id |-> client.id, available |-> client.available, held |-> client.held,
     total |-> client.total, locked |-> client.locked]

WrittenIds == {written[i].id : i \in 1 .. Len(written)}

\* for client in clients.values(): writer.serialize(client) succeeds.  The
\* order of a HashMap's values is not fixed.
WriteRow ==
    /\ pc = "write"
    /\ \E c \in (DOMAIN clients) \ WrittenIds :
         written' = Append(written, row_of(clients[c]))
    /\ UNCHANGED << clients, transaction, before, consumed, pc, rows, taken, failure,
                    message, exit_code >>

\* writer.serialize(client).is_err(): the message and exit(1).
SerializeFails ==
    /\ pc = "write"
    /\ (DOMAIN clients) \ WrittenIds # {}
    /\ failure' = "Serialize"
    /\ message' = Some(error_message("Serialize"))
    /\ exit_code' = Some(exit_status("Serialize"))
    /\ pc' = "exit"
    /\ UNCHANGED << clients, transaction, before, consumed, rows, taken, written >>

\* Every client is written and main returns.
Finish ==
    /\ pc = "write"
    /\ (DOMAIN clients) \ WrittenIds = {}
    /\ exit_code' = Some(exit_status(failure))
    /\ pc' = "exit"
    /\ UNCHANGED << clients, transaction, before, consumed, rows, taken, failure,
                    written, message >>

\* The Err arms of `match clients`.
ReportError ==
    /\ pc = "match"
    /\ message' = Some(error_message(failure))
    /\ exit_code' = Some(exit_status(failure))
    /\ pc' = "exit"
    /\ UNCHANGED << clients, transaction, before, consumed, rows, taken, failure,
                    written >>

NextMain ==
    \/ CheckArgs
    \/ Open
    \/ ReadRow
    \/ ReadMalformed
    \/ EndOfInput
    \/ FoldRecord
    \/ EndFold
    \/ WriteRow
    \/ SerializeFails
    \/ Finish
    \/ ReportError

SpecMain == InitMain /\ [][NextMain]_vars

(***************************************************************************)
(* The fold with one worker per client_id: the records are applied in any  *)
(* order that keeps the order of the records of each client.               *)
(***************************************************************************)
\* The sequential fold of main over a whole input, from the map m.
RECURSIVE fold_from(_, _)
fold_from(m, rs) ==
    IF rs = << >> THEN m ELSE fold_from(apply(m, Head(rs)), Tail(rs))

\* Row i is the first row of its client that has not been applied.
NextOfItsClient(i) ==
    /\ i \in (1 .. Len(rows)) \ taken
    /\ \A j \in 1 .. (i - 1) : rows[j].client_id = rows[i].client_id => j \in taken

\* The worker of a client applies the next record of that client.
Shard ==
    /\ pc = "fold"
    /\ \E i \in 1 .. Len(rows) :
         /\ NextOfItsClient(i)
         /\ FoldCore(rows[i])
         /\ taken' = taken \cup {i}
    /\ UNCHANGED << pc, rows, failure, written, message, exit_code >>

InitSharded ==
    /\ InitFold
    /\ InitIo
    /\ pc = "parse"

NextSharded ==
    \/ ReadRow
    \/ EndOfInput
    \/ Shard

SpecSharded == InitSharded /\ [][NextSharded]_vars

(***************************************************************************)
(* Properties                                                              *)
(***************************************************************************)
\* The client the last record was routed to, after the record.
after == clients[transaction.client_id]

Processed(ty) == transaction.type_ = ty

\* The history entry the last record names, in the client as it was received.
Named == before.transactions[transaction.id]
NamesEntry == transaction.id \in DOMAIN before.transactions

IsZero(x) == x.int_val = 0
IsNegative(x) == x.int_val < 0

\* C1: after every processed record, every client's total equals its available
\* plus its held, exactly, whatever the kinds, ids and amounts (negative included).
C1_TotalIsAvailablePlusHeld ==
    \A c \in DOMAIN clients :
        Eq(clients[c].total, Add(clients[c].available, clients[c].held))

\* A chargeback has just locked a client that keeps funds: all three balances moved.
C1_Witness ==
    /\ Processed("Chargeback")
    /\ ~before.locked
    /\ after.locked
    /\ ~IsZero(after.total)
    /\ ~Eq(after.total, before.total)

\* C2: with non-negative amounts, available is never negative.
C2_AvailableNonNegative ==
    \A c \in DOMAIN clients : ~IsNegative(clients[c].available)

\* The sum of the amounts of the entries of `self` that are marked disputed.
RECURSIVE SumAmounts(_, _)
SumAmounts(self, ids) ==
    IF ids = {} THEN Zero
    ELSE LET i == CHOOSE i \in ids : TRUE
         IN  Add(unwrap(self.transactions[i].amount), SumAmounts(self, ids \ {i}))

DisputedIds(self) == {i \in DOMAIN self.transactions : self.transactions[i].disputed}

HeldIsDisputedSum(self) == Eq(self.held, SumAmounts(self, DisputedIds(self)))

\* C3: held equals the sum of the amounts of the entries marked disputed, stated
\* for the case the claim singles out: the state right after a Chargeback record.
C3_HeldIsDisputedSumAfterChargeback ==
    Processed("Chargeback") => HeldIsDisputedSum(after)

\* C4: once a client is locked, no further record changes its balances, its
\* lock or its history.
C4_LockTerminality ==
    [][\A c \in DOMAIN clients : clients[c].locked => clients'[c] = clients[c]]_vars

\* A deposit with an amount has been routed to a client that was locked already.
C4_Witness ==
    /\ Processed("Deposit")
    /\ is_some(transaction.amount)
    /\ before.locked

\* The history of `self` with the entry `id` left out.
Others(self, id) ==
    [i \in (DOMAIN self.transactions) \ {id} |-> self.transactions[i]]

\* C5: a Withdrawal of amount a on an unlocked client takes effect exactly when
\* a <= available; then available and total go down by a, held stays and the
\* entry (tx, Withdrawal, a, false) is recorded; otherwise nothing changes.
C5_WithdrawalEffect ==
    (Processed("Withdrawal") /\ is_some(transaction.amount) /\ ~before.locked) =>
        LET a == unwrap(transaction.amount)
        IN  IF Le(a, before.available)
            THEN /\ Eq(after.available, Sub(before.available, a))
                 /\ Eq(after.total, Sub(before.total, a))
                 /\ after.held = before.held
                 /\ after.locked = before.locked
                 /\ transaction.id \in DOMAIN after.transactions
                 /\ after.transactions[transaction.id].type_ = "Withdrawal"
                 /\ Eq(unwrap(after.transactions[transaction.id].amount), a)
                 /\ ~after.transactions[transaction.id].disputed
                 /\ Others(after, transaction.id) = Others(before, transaction.id)
            ELSE after = before

\* The last record was a Dispute of an entry that was not disputed, on an
\* unlocked client.
DisputeActed ==
    /\ Processed("Dispute")
    /\ ~before.locked
    /\ NamesEntry
    /\ ~Named.disputed

\* C6: such a Dispute moves the entry's amount from available to held, marks the
\* entry disputed and leaves total, locked and every other entry as they were,
\* whether the entry is a Deposit or a Withdrawal.
C6_DisputeEffect ==
    DisputeActed =>
        /\ Eq(after.available, Sub(before.available, unwrap(Named.amount)))
        /\ Eq(after.held, Add(before.held, unwrap(Named.amount)))
        /\ after.total = before.total
        /\ after.locked = before.locked
        /\ after.transactions =
               [before.transactions EXCEPT ![transaction.id].disputed = TRUE]

\* A Withdrawal entry with funds in it has been disputed.
C6_Witness ==
    /\ DisputeActed
    /\ Named.type_ = "Withdrawal"
    /\ ~IsZero(unwrap(Named.amount))
    /\ ~Eq(after.held, before.held)

\* C7: a Dispute that acted, followed at once by the Resolve of the same tx of
\* the same client, brings available, held, total, locked and the history
\* (the entry's flag included) back to what they were before the Dispute.
C7_DisputeResolveRoundTrip ==
    [][(DisputeActed /\ transaction' = [transaction EXCEPT !.type_ = "Resolve"]) =>
           /\ Eq(clients'[transaction.client_id].available, before.available)
           /\ Eq(clients'[transaction.client_id].held, before.held)
           /\ Eq(clients'[transaction.client_id].total, before.total)
           /\ clients'[transaction.client_id].locked = before.locked
           /\ clients'[transaction.client_id].transactions = before.transactions
      ]_vars

\* Three records on one client: the entry's record, its Dispute, then the Resolve
\* that released the funds.
C7_Witness ==
    /\ consumed = 3
    /\ Processed("Resolve")
    /\ ~before.locked
    /\ NamesEntry
    /\ Named.disputed
    /\ ~IsZero(unwrap(Named.amount))
    /\ ~Eq(after.held, before.held)

\* The last record was a Chargeback of a disputed entry, on an unlocked client.
ChargebackActed ==
    /\ Processed("Chargeback")
    /\ ~before.locked
    /\ NamesEntry
    /\ Named.disputed

\* C8: such a Chargeback takes the entry's amount out of held and total, leaves
\* available, locks the client and leaves the entry marked disputed; Deposit,
\* Dispute, Chargeback on a fresh client ends with 0, 0, 0 and locked.
C8_ChargebackEffect ==
    ChargebackActed =>
        /\ Eq(after.held, Sub(before.held, unwrap(Named.amount)))
        /\ Eq(after.total, Sub(before.total, unwrap(Named.amount)))
        /\ after.available = before.available
        /\ after.locked
        /\ after.transactions = before.transactions
        /\ after.transactions[transaction.id].disputed
        /\ (consumed = 3 /\ Named.type_ = "Deposit") =>
               /\ IsZero(after.available)
               /\ IsZero(after.held)
               /\ IsZero(after.total)

\* The scenario: the third record is the Chargeback of the deposit made by the
\* first and disputed by the second.
C8_Witness ==
    /\ ChargebackActed
    /\ consumed = 3
    /\ Named.type_ = "Deposit"
    /\ ~IsZero(unwrap(Named.amount))
    /\ after.locked

\* The last record was a Dispute, Resolve or Chargeback that its target's state
\* does not allow.
OutOfState ==
    \/ Processed("Dispute") /\ (~NamesEntry \/ Named.disputed)
    \/ Processed("Resolve") /\ (~NamesEntry \/ ~Named.disputed)
    \/ Processed("Chargeback") /\ (~NamesEntry \/ ~Named.disputed)

\* C9: an out-of-state Dispute, Resolve or Chargeback changes nothing of the
\* client, whatever its state, and a Dispute repeated at once changes nothing.
C9_OutOfStateNoOp ==
    [][/\ OutOfState' => clients'[transaction'.client_id] = before'
       /\ (Processed("Dispute") /\ transaction' = transaction) => clients' = clients
      ]_vars

\* An entry that was disputed already has been disputed again, on an unlocked client.
C9_Witness ==
    /\ Processed("Dispute")
    /\ ~before.locked
    /\ NamesEntry
    /\ Named.disputed
    /\ ~IsZero(unwrap(Named.amount))

\* C10: with non-negative amounts, held is never negative.
C10_HeldNonNegative ==
    \A c \in DOMAIN clients : ~IsNegative(clients[c].held)

\* A Resolve has released the last held funds of an unlocked client.
C10_Witness ==
    /\ Processed("Resolve")
    /\ ~before.locked
    /\ NamesEntry
    /\ Named.disputed
    /\ ~IsZero(before.held)
    /\ IsZero(after.held)

\* C11: a Deposit of amount a on an unlocked client raises available and total
\* by a, leaves held and locked, and stores the entry (tx, Deposit, a, false)
\* under tx; on a fresh client the balances become a, 0, a and locked is false.
C11_DepositEffect ==
    (Processed("Deposit") /\ is_some(transaction.amount) /\ ~before.locked) =>
        LET a == unwrap(transaction.amount)
        IN  /\ Eq(after.available, Add(before.available, a))
            /\ Eq(after.total, Add(before.total, a))
            /\ after.held = before.held
            /\ after.locked = before.locked
            /\ transaction.id \in DOMAIN after.transactions
            /\ after.transactions[transaction.id].type_ = "Deposit"
            /\ Eq(unwrap(after.transactions[transaction.id].amount), a)
            /\ ~after.transactions[transaction.id].disputed
            /\ Others(after, transaction.id) = Others(before, transaction.id)
            /\ before = new(transaction.client_id) =>
                   /\ Eq(after.available, a)
                   /\ IsZero(after.held)
                   /\ Eq(after.total, a)
                   /\ ~after.locked

\* The last record was a Dispute, Resolve or Chargeback naming a tx that is not
\* in its client's history and is in another client's.
NamesForeignEntry ==
    /\ transaction.type_ \in {"Dispute", "Resolve", "Chargeback"}
    /\ ~NamesEntry
    /\ \E d \in (DOMAIN clients) \ {transaction.client_id} :
           transaction.id \in DOMAIN clients[d].transactions

\* C12: a record with client_id c leaves every other client as it was, and a
\* Dispute, Resolve or Chargeback naming a tx that only another client holds
\* changes neither client.
C12_NoCrossClientEffects ==
    [][/\ \A d \in DOMAIN clients :
              d # transaction'.client_id =>
                  d \in DOMAIN clients' /\ clients'[d] = clients[d]
       /\ NamesForeignEntry' => clients'[transaction'.client_id] = before'
      ]_vars

\* A Dispute routed to one client names an undisputed, funded entry of another.
C12_Witness ==
    /\ Processed("Dispute")
    /\ NamesForeignEntry
    /\ \E d \in (DOMAIN clients) \ {transaction.client_id} :
           /\ transaction.id \in DOMAIN clients[d].transactions
           /\ ~clients[d].transactions[transaction.id].disputed
           /\ ~clients[d].locked
           /\ ~IsZero(unwrap(clients[d].transactions[transaction.id].amount))

\* C13: whatever the order in which the records are applied, as long as the
\* records of each client keep their order, the final client map (balances,
\* locks and histories) is the one the sequential fold yields.
C13_InterleavingIndependence ==
    (pc = "fold" /\ consumed = Len(rows)) => clients = fold_from(EmptyMap, rows)

\* All the rows of an input are applied, a row of one client before an earlier
\* row of the other, and that earlier row names a tx the first client holds.
C13_Witness ==
    /\ pc = "fold"
    /\ consumed = Len(rows)
    /\ Len(rows) >= 3
    /\ DOMAIN clients = ClientIds
    /\ transaction = rows[1]
    /\ transaction.type_ \in {"Dispute", "Chargeback"}
    /\ \E d \in ClientIds \ {transaction.client_id} : clients[d].locked

\* The four failure classes of the claim: file not found, permission denied,
\* malformed input, output serialization failure.
FourClasses == {"NotFound", "PermissionDenied", "Other", "Serialize"}

\* C14 as stated: success exits with 0, and each of the four failure classes
\* exits with a non-zero code and a message that both differ from those of the
\* other three classes.
C14_DistinctExitCodeAndMessage ==
    pc = "exit" =>
        /\ failure = "None" => exit_code = Some(0)
        /\ failure \in FourClasses =>
               /\ unwrap(exit_code) # 0
               /\ \A g \in FourClasses \ {failure} :
                      /\ unwrap(exit_code) # exit_status(g)
                      /\ unwrap(message) # error_message(g)

\* C14 as amended: success exits with 0, and each of the four failure classes
\* exits with code 1 and a message that differs from those of the other three.
C14_NonZeroExitDistinctMessage ==
    pc = "exit" =>
        /\ failure = "None" => exit_code = Some(0) /\ message = None
        /\ failure \in FourClasses =>
               /\ exit_code = Some(1)
               /\ is_some(message)
               /\ \A g \in FourClasses \ {failure} : unwrap(message) # error_message(g)

\* A run that opened nothing readable has ended.
C14_Witness ==
    /\ pc = "exit"
    /\ failure = "PermissionDenied"
    /\ is_some(message)
    /\ is_some(exit_code)

\* The decimals a client stores: its balances and the amounts of its history.
Decimals(self) ==
    {self.available, self.held, self.total}
        \cup {unwrap(self.transactions[i].amount) :
                 i \in {j \in DOMAIN self.transactions : is_some(self.transactions[j].amount)}}

\* C15: after every processed record each stored decimal has PRECISION digits
\* after the point, and a Deposit whose amount has at most PRECISION fractional
\* digits changes available and total by exactly that amount.
C15_FixedFractionalPrecision ==
    /\ \A c \in DOMAIN clients : \A x \in Decimals(clients[c]) : x.scale = PRECISION
    /\ (/\ Processed("Deposit")
        /\ is_some(transaction.amount)
        /\ ~before.locked
        /\ unwrap(transaction.amount).scale <= PRECISION) =>
           /\ Eq(after.available, Add(before.available, unwrap(transaction.amount)))
           /\ Eq(after.total, Add(before.total, unwrap(transaction.amount)))

\* The client_ids of the records consumed so far, and of the whole input.
ConsumedIds == {rows[i].client_id : i \in 1..consumed}
InputIds == {rows[i].client_id : i \in 1..Len(rows)}

\* C16: the map holds exactly the clients some consumed record names; the first
\* record of a client, whatever its kind, is received by a zero client; once
\* the fold is over the map has one client per distinct client_id of the input.
C16_ClientExistsIffReferenced ==
    /\ DOMAIN clients = ConsumedIds
    /\ \A c \in DOMAIN clients : clients[c].id = c
    /\ (consumed > 0 /\ \A i \in 1..(consumed - 1) : rows[i].client_id # rows[consumed].client_id) =>
           /\ transaction = rows[consumed]
           /\ before = new(transaction.client_id)
    /\ (pc \in {"write", "exit"} /\ failure \in {"None", "Serialize"}) =>
           Cardinality(DOMAIN clients) = Cardinality(InputIds)

\* A run has ended with two clients, one of them created by a record that had no
\* effect and still in its zero state.
C16_Witness ==
    /\ pc = "exit"
    /\ failure = "None"
    /\ Cardinality(DOMAIN clients) = 2
    /\ \E c \in DOMAIN clients :
           /\ clients[c] = new(c)
           /\ \E i \in 1..Len(rows) : rows[i].client_id = c /\ rows[i].type_ = "Dispute"

\* C17: in every step, every entry already stored keeps its kind and amount, and
\* its disputed flag changes only from false to true by a Dispute naming it or
\* from true to false by a Resolve naming it; a Deposit or Withdrawal alters no
\* stored entry.
C17_EntryTransitions ==
    [][\A c \in DOMAIN clients : \A i \in DOMAIN clients[c].transactions :
           /\ i \in DOMAIN clients'[c].transactions
           /\ clients'[c].transactions[i].type_ = clients[c].transactions[i].type_
           /\ clients'[c].transactions[i].amount = clients[c].transactions[i].amount
           /\ clients'[c].transactions[i].disputed # clients[c].transactions[i].disputed =>
                  /\ transaction'.client_id = c
                  /\ transaction'.id = i
                  /\ \/ ~clients[c].transactions[i].disputed /\ transaction'.type_ = "Dispute"
                     \/ clients[c].transactions[i].disputed /\ transaction'.type_ = "Resolve"]_vars

\* The last record is a Deposit or Withdrawal the client applies: it is not
\* locked, the amount is there and, for a Withdrawal, does not exceed available.
Applies ==
    /\ ~before.locked
    /\ transaction.type_ \in {"Deposit", "Withdrawal"}
    /\ is_some(transaction.amount)
    /\ Processed("Withdrawal") =>
           Le(with_prec(unwrap(transaction.amount), PRECISION), before.available)

\* C18: a record adds its tx id to the history exactly when it is an applied
\* Deposit or Withdrawal; a rejected Withdrawal, a Deposit or Withdrawal without
\* amount and any record on a locked client change nothing, and a Dispute,
\* Resolve or Chargeback naming a tx id that is not in the history changes nothing.
C18_HistoryIsAppliedFundRecords ==
    consumed > 0 =>
        /\ DOMAIN after.transactions =
               DOMAIN before.transactions \cup (IF Applies THEN {transaction.id} ELSE {})
        /\ (transaction.type_ \in {"Deposit", "Withdrawal"} /\ ~Applies) => after = before
        /\ (transaction.type_ \in {"Dispute", "Resolve", "Chargeback"} /\ ~NamesEntry) =>
               after = before

\* A Withdrawal of more than the available funds of an unlocked client with funds
\* has been rejected, and its tx id is not in the history.
C18_Witness ==
    /\ Processed("Withdrawal")
    /\ is_some(transaction.amount)
    /\ ~before.locked
    /\ ~IsZero(before.available)
    /\ ~Applies
    /\ transaction.id \notin DOMAIN after.transactions
    /\ after = before

\* Client c was locked before the step (a client not yet in the map is not).
WasLocked(c) == c \in DOMAIN clients /\ clients[c].locked

\* The step processes a Chargeback of client c naming an entry of c that is
\* disputed when the record arrives.
ChargebackOfDisputed(c) ==
    /\ transaction'.type_ = "Chargeback"
    /\ transaction'.client_id = c
    /\ c \in DOMAIN clients
    /\ transaction'.id \in DOMAIN clients[c].transactions
    /\ clients[c].transactions[transaction'.id].disputed

\* C19: in every step a locked client stays locked; an unlocked client becomes
\* locked exactly when the step processes a Chargeback naming a disputed entry
\* of it; a Chargeback on a locked client changes nothing, so a client has at
\* most one successful chargeback.
C19_LockOnlyByChargeback ==
    [][\A c \in DOMAIN clients' :
           /\ WasLocked(c) => clients'[c].locked
           /\ (~WasLocked(c) /\ clients'[c].locked) => ChargebackOfDisputed(c)
           /\ (~WasLocked(c) /\ ChargebackOfDisputed(c)) => clients'[c].locked
           /\ (WasLocked(c) /\ transaction'.client_id = c) => clients'[c] = clients[c]]_vars

\* A second Chargeback has named the still disputed entry of a locked client and
\* changed nothing.
C19_Witness ==
    /\ Processed("Chargeback")
    /\ before.locked
    /\ NamesEntry
    /\ Named.disputed
    /\ after = before
    /\ after.locked

\* C20: no record is applied while the input is still being parsed; when a row
\* is malformed no record has been applied to any client, no client row is
\* written, and the run ends with the invalid-format message and exit code 1.
C20_AllOrNothingInput ==
    /\ pc = "parse" => (consumed = 0 /\ clients = EmptyMap /\ written = << >>)
    /\ failure = "Other" =>
           /\ consumed = 0
           /\ clients = EmptyMap
           /\ written = << >>
           /\ pc \in {"match", "exit"}
           /\ pc = "exit" =>
                  /\ message = Some(error_message("Other"))
                  /\ exit_code = Some(exit_status("Other"))

\* A run whose input had well-formed rows before the malformed one has ended
\* with the invalid-format message.
C20_Witness ==
    /\ pc = "exit"
    /\ failure = "Other"
    /\ Len(rows) >= 2
    /\ rows[1].type_ = "Deposit"
    /\ clients = EmptyMap
    /\ message = Some(error_message("Other"))

====
